---- MODULE Spec2Model ----
(***************************************************************************)
(* Model of bootloader/createDiskImage.py: the disk image assembler.       *)
(*                                                                         *)
(* The script is a linear pipeline; the state is the file system (the      *)
(* three input files and the output file), the script's local variables    *)
(* and its position.  Files are byte sequences.  The four paths given on   *)
(* the command line are taken to be four distinct files.  Integer to byte  *)
(* conversions follow int.to_bytes of Python 3.11 (default byteorder       *)
(* "big"); 64-bit quantities are carried as two 32-bit halves because the  *)
(* magic number does not fit the model checker's integers.                 *)
(***************************************************************************)
EXTENDS Integers, Sequences, FiniteSets, TLC

VARIABLES
    argc,                  \* len(sys.argv)
    fs,                    \* the file system: path -> File(bytes) or NoFile
    out0,                  \* what the output path held before the run
    pc,                    \* position of the script
    fd,                    \* TRUE while the output file object is open
    stage0Size,            \* locals of __main__; -1 before assignment
    stage1Size,
    kernelImageStartSec,
    kernelImageSize,
    metadataSec,
    paddingLen,
    metadataPos,           \* fd.tell() when the metadata sector is written
    kernelPos,             \* fd.tell() when the kernel image is written
    exitCode,              \* process exit status; -1 while running
    err                    \* which failure ended the run, "none" otherwise

vars == <<argc, fs, out0, pc, fd, stage0Size, stage1Size, kernelImageStartSec,
          kernelImageSize, metadataSec, paddingLen, metadataPos, kernelPos,
          exitCode, err>>

locals == <<stage0Size, stage1Size, kernelImageStartSec, kernelImageSize,
            metadataSec, paddingLen, metadataPos, kernelPos>>

----------------------------------------------------------------------------
(* Program constants *)

SectorSize == 512
MagicHi == 1635017060      \* 0x61746164, upper half of 0x617461646174656d
MagicLo == 1635018093      \* 0x6174656d, lower half of 0x617461646174656d
MinArgc == 5

(* Bounds of the model *)

MaxS1Sectors == 2          \* stage 1 spans up to this many whole sectors ...
MaxKSectors == 1           \* ... and the kernel up to this many ...
MaxSeed == 1               \* file contents are drawn from MaxSeed+1 patterns

\* ... plus one of these remainders (100 and 488 are the spec's example).
Rems == {0, 1, 100, 488, 511}

\* A path is either absent or a regular file holding a byte sequence.
NoFile == [exists |-> FALSE, data |-> <<>>]
File(bytes) == [exists |-> TRUE, data |-> bytes]
Paths == {"stage0", "stage1", "kernel", "out"}

----------------------------------------------------------------------------
(* Input files *)

Stage0Lens == {0, SectorSize - 1, SectorSize, SectorSize + 1, 2 * SectorSize}
Stage1Lens == {q * SectorSize + r : q \in 0..MaxS1Sectors, r \in Rems}
KernelLens == {q * SectorSize + r : q \in 0..MaxKSectors, r \in Rems}

Pattern(seed, mul, off, n) == [i \in 1..n |-> (seed + mul * i + off) % 256]

OldOutput == <<222, 173, 190, 239>>

----------------------------------------------------------------------------
(* Pure helpers *)

\* Byte of weight 256^k of n.  The model's integers are below 2^31, so every
\* byte of weight 256^4 and above is zero.
ByteAt(n, k) == IF k >= 4 THEN 0 ELSE (n \div (256 ^ k)) % 256

\* n.to_bytes(len, byteorder="little"), for 0 <= n < 256^len
ToBytesLittle(n, len) == [i \in 1..len |-> ByteAt(n, i - 1)]

\* n.to_bytes(len), byteorder defaulting to "big", for 0 <= n < 256^len
ToBytesBig(n, len) == [i \in 1..len |-> ByteAt(n, len - i)]

\* (hi * 2^32 + lo).to_bytes(8, byteorder="little")
ToBytes64Little(hi, lo) == ToBytesLittle(lo, 4) \o ToBytesLittle(hi, 4)

\* os.path.exists(filePath)
Exists(filePath) == fs[filePath].exists

\* fileSize(filePath): os.stat(filePath).st_size
fileSize(filePath) == Len(fs[filePath].data)

KernelImageDiskOffset(s0, s1) == s0 + s1 + 1

KernelImageStartSecDivOnly(off) == off \div SectorSize

KernelImageStartSec(off) == (off \div SectorSize) + (off % SectorSize)

PaddingLenExact(k) == (SectorSize - (k % SectorSize)) % SectorSize

PaddingLen(k) == SectorSize - (k % SectorSize)

FinalAssertStripped(size) == TRUE

FinalAssertOk(size) == size % SectorSize = 0

----------------------------------------------------------------------------
(* Initial states: the command line and the files on disk *)

Init ==
    /\ argc \in {MinArgc - 1, MinArgc}
    /\ \E seed \in 0..MaxSeed :
       \E c0 \in {NoFile} \cup {File(Pattern(seed, 1, 0, n)) : n \in Stage0Lens} :
       \E c1 \in {NoFile} \cup {File(Pattern(seed, 2, 170, n)) : n \in Stage1Lens} :
       \E ck \in {NoFile} \cup {File(Pattern(seed, 3, 187, n)) : n \in KernelLens} :
       \E co \in {NoFile, File(OldOutput)} :
          fs = [p \in Paths |->
                   CASE p = "stage0" -> c0
                     [] p = "stage1" -> c1
                     [] p = "kernel" -> ck
                     [] p = "out"    -> co]
    /\ out0 = fs["out"]
    /\ pc = "args"
    /\ fd = FALSE
    /\ stage0Size = -1
    /\ stage1Size = -1
    /\ kernelImageStartSec = -1
    /\ kernelImageSize = -1
    /\ metadataSec = <<>>
    /\ paddingLen = -1
    /\ metadataPos = -1
    /\ kernelPos = -1
    /\ exitCode = -1
    /\ err = "none"

----------------------------------------------------------------------------
(* Steps of __main__ *)

\* sys.exit(1) after a diagnostic
Fail(why) ==
    /\ pc' = "exited"
    /\ exitCode' = 1
    /\ err' = why

Goto(next) ==
    /\ pc' = next
    /\ UNCHANGED <<exitCode, err>>

\* open(path, "rb").read()
Read(path) == fs[path].data

\* fd.write(data)
Write(data) == fs' = [fs EXCEPT !["out"] = File(@.data \o data)]

CheckArgs ==
    /\ pc = "args"
    /\ IF argc < MinArgc THEN Fail("usage") ELSE Goto("exists0")
    /\ UNCHANGED <<argc, fs, out0, fd, locals>>

AssertStage0Exists ==
    /\ pc = "exists0"
    /\ IF ~Exists("stage0") THEN Fail("missing") ELSE Goto("exists1")
    /\ UNCHANGED <<argc, fs, out0, fd, locals>>

AssertStage1Exists ==
    /\ pc = "exists1"
    /\ IF ~Exists("stage1") THEN Fail("missing") ELSE Goto("existsK")
    /\ UNCHANGED <<argc, fs, out0, fd, locals>>

AssertKernelExists ==
    /\ pc = "existsK"
    /\ IF ~Exists("kernel") THEN Fail("missing") ELSE Goto("sizes")
    /\ UNCHANGED <<argc, fs, out0, fd, locals>>

StatSizes ==
    /\ pc = "sizes"
    /\ stage0Size' = fileSize("stage0")
    /\ stage1Size' = fileSize("stage1")
    /\ Goto("check0")
    /\ UNCHANGED <<argc, fs, out0, fd, kernelImageStartSec, kernelImageSize,
                   metadataSec, paddingLen, metadataPos, kernelPos>>

CheckStage0SizeSkipped ==
    /\ pc = "check0"
    /\ Goto("open")
    /\ UNCHANGED <<argc, fs, out0, fd, locals>>

CheckStage0Size ==
    /\ pc = "check0"
    /\ IF stage0Size # SectorSize THEN Fail("stage0size") ELSE Goto("open")
    /\ UNCHANGED <<argc, fs, out0, fd, locals>>

OpenOutput ==
    /\ pc = "open"
    /\ fs' = [fs EXCEPT !["out"] = File(<<>>)]
    /\ fd' = TRUE
    /\ Goto("write0")
    /\ UNCHANGED <<argc, out0, locals>>

WriteStage0 ==
    /\ pc = "write0"
    /\ Write(Read("stage0"))
    /\ Goto("write1")
    /\ UNCHANGED <<argc, out0, fd, locals>>

WriteStage1Padded ==
    /\ pc = "write1"
    /\ Write(Read("stage1") \o
             ToBytesBig(0, PaddingLenExact(fileSize("stage1"))))
    /\ Goto("metadata")
    /\ UNCHANGED <<argc, out0, fd, locals>>

WriteStage1 ==
    /\ pc = "write1"
    /\ Write(Read("stage1"))
    /\ Goto("metadata")
    /\ UNCHANGED <<argc, out0, fd, locals>>

\* The header before padding: magic, start sector, kernel size.
MetadataHeaderBigEndian(startSec, size) ==
    ToBytes64Little(MagicHi, MagicLo)
        \o ToBytesBig(startSec, 8)
        \o ToBytesBig(size, 8)

MetadataHeader(startSec, size) ==
    ToBytes64Little(MagicHi, MagicLo)
        \o ToBytes64Little(0, startSec)
        \o ToBytes64Little(0, size)

BuildMetadata ==
    /\ pc = "metadata"
    /\ LET off == KernelImageDiskOffset(stage0Size, stage1Size)
           sec == KernelImageStartSec(off)
           size == fileSize("kernel")
           hdr == MetadataHeader(sec, size)
       IN  /\ kernelImageStartSec' = sec
           /\ kernelImageSize' = size
           /\ IF Len(hdr) > SectorSize
              THEN /\ metadataSec' = hdr
                   /\ Fail("overflow")
              ELSE /\ metadataSec' = hdr \o ToBytesBig(0, SectorSize - Len(hdr))
                   /\ Goto("writeM")
    /\ UNCHANGED <<argc, fs, out0, fd, stage0Size, stage1Size, paddingLen,
                   metadataPos, kernelPos>>

WriteMetadata ==
    /\ pc = "writeM"
    /\ metadataPos' = fileSize("out")
    /\ Write(metadataSec)
    /\ Goto("writeK")
    /\ UNCHANGED <<argc, out0, fd, stage0Size, stage1Size, kernelImageStartSec,
                   kernelImageSize, metadataSec, paddingLen, kernelPos>>

WriteKernel ==
    /\ pc = "writeK"
    /\ kernelPos' = fileSize("out")
    /\ Write(Read("kernel"))
    /\ Goto("pad")
    /\ UNCHANGED <<argc, out0, fd, stage0Size, stage1Size, kernelImageStartSec,
                   kernelImageSize, metadataSec, paddingLen, metadataPos>>

WritePadding ==
    /\ pc = "pad"
    /\ paddingLen' = PaddingLen(kernelImageSize)
    /\ Write(ToBytesBig(0, paddingLen'))
    /\ Goto("close")
    /\ UNCHANGED <<argc, out0, fd, stage0Size, stage1Size, kernelImageStartSec,
                   kernelImageSize, metadataSec, metadataPos, kernelPos>>

CloseOutput ==
    /\ pc = "close"
    /\ fd' = FALSE
    /\ Goto("assert")
    /\ UNCHANGED <<argc, fs, out0, locals>>

\* A failed assert raises AssertionError; the interpreter exits with status 1.
FinalAssert ==
    /\ pc = "assert"
    /\ IF FinalAssertOk(fileSize("out")) THEN Goto("exit0") ELSE Fail("assert")
    /\ UNCHANGED <<argc, fs, out0, fd, locals>>

ExitSuccess ==
    /\ pc = "exit0"
    /\ pc' = "exited"
    /\ exitCode' = 0
    /\ UNCHANGED <<argc, fs, out0, fd, locals, err>>

Next ==
    \/ CheckArgs
    \/ AssertStage0Exists
    \/ AssertStage1Exists
    \/ AssertKernelExists
    \/ StatSizes
    \/ CheckStage0Size
    \/ OpenOutput
    \/ WriteStage0
    \/ WriteStage1
    \/ BuildMetadata
    \/ WriteMetadata
    \/ WriteKernel
    \/ WritePadding
    \/ CloseOutput
    \/ FinalAssert
    \/ ExitSuccess

Spec == Init /\ [][Next]_vars

----------------------------------------------------------------------------
(* Vocabulary of the properties *)

Out == fs["out"].data
S0 == Len(fs["stage0"].data)
S1 == Len(fs["stage1"].data)
K == Len(fs["kernel"].data)

CeilDiv(a, b) == (a + b - 1) \div b

\* The command line and the input files pass every validation.
ValidInput ==
    /\ argc >= MinArgc
    /\ fs["stage0"].exists /\ fs["stage1"].exists /\ fs["kernel"].exists
    /\ S0 = SectorSize

\* The output file has been written in full and closed.
Written == pc \in {"assert", "exit0", "exited"} /\ paddingLen # -1 /\ ~fd

\* The metadata sector has been built.
Built == pc \in {"writeM", "writeK", "pad", "close", "assert", "exit0", "exited"}
         /\ Len(metadataSec) >= 24

\* Reading a little-endian 64-bit field at byte offset off of a sector, as
\* the pair <<upper 32 bits, lower 32 bits>>.
Decode32(b, off) ==
    b[off + 1] + 256 * b[off + 2] + 65536 * b[off + 3] + 16777216 * b[off + 4]
Decode64(b, off) == <<Decode32(b, off + 4), Decode32(b, off)>>

\* The sector of the output image that starts at byte offset pos.
SectorAt(pos) == SubSeq(Out, pos + 1, pos + SectorSize)

AllZero(b, from, to) == \A i \in from..to : b[i] = 0

----------------------------------------------------------------------------
\* C1: for every valid input the written output image has a length that is
\* a multiple of 512 and the run's final check passes (no run ends in the
\* alignment assertion).
C1_SizeInvariant ==
    /\ (ValidInput /\ Written) => Len(Out) % SectorSize = 0
    /\ ValidInput => err # "assert"

\* C2: the kernel_start_sector stored in the metadata sector of the image is
\* the sector at which the kernel payload begins: the kernel's first byte is
\* at byte offset 512 * kernel_start_sector.
C2_StartSectorIsKernelSector ==
    (ValidInput /\ Written) =>
        /\ Decode64(SectorAt(metadataPos), 8)[1] = 0
        /\ SectorSize * Decode64(SectorAt(metadataPos), 8)[2] = kernelPos
        /\ SubSeq(Out, kernelPos + 1, kernelPos + K) = fs["kernel"].data

\* C3: the kernel_start_sector computed and stored in the metadata sector
\* equals ceil((512 + S1) / 512) + 1.
C3_StartSectorFormula ==
    (ValidInput /\ Built) =>
        /\ kernelImageStartSec = CeilDiv(SectorSize + S1, SectorSize) + 1
        /\ Decode64(metadataSec, 8) = <<0, CeilDiv(SectorSize + S1, SectorSize) + 1>>

\* C4: the metadata sector is placed at sector 1 + ceil(S1/512) of the image,
\* i.e. at byte offset 512 * (1 + ceil(S1/512)), and the kernel payload
\* starts at the sector right after it.
C4_MetadataPlacement ==
    (ValidInput /\ Written) =>
        /\ metadataPos = SectorSize * (1 + CeilDiv(S1, SectorSize))
        /\ SectorAt(metadataPos) = metadataSec
        /\ kernelPos = metadataPos + SectorSize

\* C5: when the command line or an input is invalid (too few arguments, a
\* missing input file, stage 0 not 512 bytes long) the output path is never
\* opened, it keeps what it held before the run, and the run ends with exit
\* status 1 after a validation failure.
C5_ValidationBeforeOutput ==
    ~ValidInput =>
        /\ ~fd
        /\ fs["out"] = out0
        /\ pc \notin {"open", "write0", "write1", "metadata", "writeM", "writeK",
                      "pad", "close", "assert", "exit0"}
        /\ pc = "exited" =>
              /\ exitCode = 1
              /\ err \in {"usage", "missing", "stage0size"}

C5_Witness ==
    /\ pc = "exited" /\ err = "stage0size" /\ exitCode = 1
    /\ out0 = File(OldOutput) /\ fs["out"] = out0
    /\ S0 = SectorSize + 1

\* C6: the metadata sector is 512 bytes: the magic 0x617461646174656d, the
\* kernel start sector and the unpadded kernel length, each as a 64-bit
\* little-endian field, then 488 zero bytes; decoding the sector found in
\* the image yields the start sector and kernel size used to build it; the
\* header overflow branch is never taken.
C6_MetadataSector ==
    /\ err # "overflow"
    /\ Built =>
        /\ Len(metadataSec) = SectorSize
        /\ SubSeq(metadataSec, 1, 8) = <<109, 101, 116, 97, 100, 97, 116, 97>>
        /\ \A i \in 0..7 :
              /\ metadataSec[8 + i + 1] = ByteAt(kernelImageStartSec, i)
              /\ metadataSec[16 + i + 1] = ByteAt(K, i)
        /\ AllZero(metadataSec, 25, SectorSize)
        /\ kernelImageSize = K
    /\ Written =>
        /\ SectorAt(metadataPos) = metadataSec
        /\ Decode64(SectorAt(metadataPos), 0) = <<MagicHi, MagicLo>>
        /\ Decode64(SectorAt(metadataPos), 8) = <<0, kernelImageStartSec>>
        /\ Decode64(SectorAt(metadataPos), 16) = <<0, K>>

C6_Witness ==
    /\ Written /\ pc = "exited"
    /\ K = 1000 /\ kernelImageStartSec > 255
    /\ Decode64(SectorAt(metadataPos), 16) = <<0, 1000>>

\* C7: for every valid input the image is stage 0 (512 bytes) at offset 0,
\* stage 1 at offset 512, the metadata sector right after stage 1, the kernel
\* right after the metadata sector, and after the kernel only zero bytes.
C7_Concatenation ==
    (ValidInput /\ Written) =>
        /\ Len(Out) >= SectorSize + S1 + SectorSize + K
        /\ SubSeq(Out, 1, SectorSize) = fs["stage0"].data
        /\ SubSeq(Out, SectorSize + 1, SectorSize + S1) = fs["stage1"].data
        /\ SubSeq(Out, SectorSize + S1 + 1, SectorSize + S1 + SectorSize)
              = metadataSec
        /\ Len(metadataSec) = SectorSize
        /\ SubSeq(Out, 2 * SectorSize + S1 + 1, 2 * SectorSize + S1 + K)
              = fs["kernel"].data
        /\ AllZero(Out, 2 * SectorSize + S1 + K + 1, Len(Out))

C7_Witness ==
    /\ ValidInput /\ Written /\ pc = "exited"
    /\ S1 = 100 /\ K = 1000
    /\ Len(Out) = 512 + 100 + 512 + 1000 + 24

\* C8: with an empty stage 1 and a 512-byte stage 0 the run never fails and
\* ends with exit status 0; the metadata sector is bytes 512..1023 of the
\* image, the stored kernel start sector is 2, the kernel begins at byte
\* 1024 and the image length is a multiple of 512.
C8_EmptyStage1 ==
    (ValidInput /\ S1 = 0) =>
        /\ err = "none"
        /\ pc = "exited" => exitCode = 0
        /\ Built => Decode64(metadataSec, 8) = <<0, 2>>
        /\ Written =>
            /\ metadataPos = SectorSize
            /\ SubSeq(Out, 513, 1024) = metadataSec
            /\ Decode64(SubSeq(Out, 513, 1024), 8) = <<0, 2>>
            /\ kernelPos = 1024
            /\ SubSeq(Out, 1025, 1024 + K) = fs["kernel"].data
            /\ Len(Out) % SectorSize = 0

C8_Witness ==
    /\ ValidInput /\ S1 = 0 /\ K = 1000
    /\ pc = "exited" /\ exitCode = 0 /\ Written

\* C9: after the K kernel bytes exactly 512 - (K mod 512) zero bytes are
\* written: between 1 and 512 of them, making the kernel's on-disk length a
\* multiple of 512, and a full sector of zeros when K is a multiple of 512.
C9_KernelPadding ==
    Written =>
        /\ paddingLen = SectorSize - (K % SectorSize)
        /\ paddingLen \in 1..SectorSize
        /\ (K + paddingLen) % SectorSize = 0
        /\ K % SectorSize = 0 => paddingLen = SectorSize
        /\ Len(Out) = kernelPos + K + paddingLen
        /\ AllZero(Out, kernelPos + K + 1, Len(Out))

C9_Witness ==
    /\ Written /\ K = SectorSize /\ paddingLen = SectorSize
    /\ Len(Out) = kernelPos + 2 * SectorSize

\* C10: the image length is 1024 + S1 + K + (512 - K mod 512), congruent to
\* S1 modulo 512; a run that passed validation ends with exit status 0
\* exactly when S1 is a multiple of 512, and then the stored kernel start
\* sector is S1/512 + 2, the sector where the kernel begins; otherwise the
\* run ends in the alignment assertion, with the whole image written and the
\* file closed.
C10_AlignedStage1Only ==
    ValidInput =>
        /\ Written =>
            /\ Len(Out) = 1024 + S1 + K + (512 - (K % 512))
            /\ Len(Out) % 512 = S1 % 512
        /\ pc = "exited" =>
            /\ Written
            /\ exitCode = 0 <=> S1 % 512 = 0
            /\ exitCode # 0 => exitCode = 1 /\ err = "assert"
            /\ err = "assert" <=> S1 % 512 # 0
        /\ (Built /\ S1 % 512 = 0) =>
            /\ Decode64(metadataSec, 8) = <<0, S1 \div 512 + 2>>
            /\ Written => kernelPos = 512 * (S1 \div 512 + 2)

C10_Witness ==
    /\ ValidInput /\ pc = "exited" /\ err = "assert" /\ exitCode = 1
    /\ S1 = 511 /\ Written /\ kernelImageStartSec = 2

====
